---- MODULE Spec2Model ----
(***************************************************************************)
(* Model of the byte-oriented Huffman codec of interface.py                *)
(* (build_huffman_tree_from_bytes, build_codes_from_tree,                  *)
(* huffman_compress_bytes, huffman_decompress_bits), of the presentation   *)
(* flow that calls it, and of the ON/OFF control loop of                   *)
(* tclab_onoff_7days.py.                                                   *)
(***************************************************************************)
EXTENDS Integers, Sequences, FiniteSets, TLC

VARIABLES
    \* ---- codec (interface.py 14-78) ----
    data,           \* data_bytes: the argument of the running huffman_compress_bytes
    pc,             \* position of the running flow
    nodes,          \* every HuffmanNode created so far (arena, index = identity)
    heap,           \* the nodes in `heap` (identities)
    merges,         \* iterations of the while loop done so far
    root,           \* what build_huffman_tree_from_bytes returned
    codes,          \* codes returned by huffman_compress_bytes
    encoded_bits,   \* encoded_bits returned by huffman_compress_bytes
    dec_bits,       \* encoded_bits argument of huffman_decompress_bits
    dec_codes,      \* codes argument of huffman_decompress_bits
    pos,            \* bits of dec_bits consumed by the for loop
    cur,            \* cur
    decoded_bytes,  \* decoded_bytes
    \* ---- decoding with a table kept from an earlier compression ----
    phase,          \* 0: one compression; 1, 2: first and second compression
    pending,        \* the input of the second compression
    inputA,         \* the input the kept table was built from
    kept_codes,     \* the table kept from the first compression
    \* ---- presentation flow (interface.py 109-163) ----
    warned,         \* st.warning was shown
    parsed,         \* pd.read_csv was reached
    \* ---- ON/OFF control loop (tclab_onoff_7days.py 46-103) ----
    t,              \* the next value of t in range(total_seconds); len(rows)
    total_seconds,  \* total_seconds
    deadband,       \* args.deadband
    T1, T2,         \* the temperatures read in the latest iteration
    sp1, sp2,       \* the setpoints of the latest iteration
    last_q1, last_q2,
    labQ1, labQ2

codecVars == <<data, pc, nodes, heap, merges, root, codes, encoded_bits,
               dec_bits, dec_codes, pos, cur, decoded_bytes>>
keptVars  == <<phase, pending, inputA, kept_codes>>
flowVars  == <<warned, parsed>>
ctlVars   == <<t, total_seconds, deadband, T1, T2, sp1, sp2,
               last_q1, last_q2, labQ1, labQ2>>
vars      == <<codecVars, keptVars, flowVars, ctlVars>>

----------------------------------------------------------------------------
\* Bounds of the model.

\* number of distinct byte values an input may use (the code allows 256)
AlphabetSize == 3
\* longest input of the round-trip specification
MaxLen == 5
\* longest input of the two-compression specification
MaxLenForeign == 3
\* longest byte sequence of the presentation-flow specification
MaxLenFlow == 3
\* iterations of the control loop followed from the state it starts in
MaxIter == 3
\* largest --deadband, in degrees
MaxDeadband == 1

Symbols == 0 .. (AlphabetSize - 1)

BytesUpTo(n) == UNION { [1 .. k -> Symbols] : k \in 0 .. n }

\* the input "aaabbc" (a:3, b:2, c:1), with a, b, c as the bytes 0, 1, 2
Aaabbc == <<0, 0, 0, 1, 1, 2>>

\* byte_val of an internal node (None), and an absent child (None)
NoByte == -1
NoNode == 0

EmptyMap == [b \in {} |-> <<>>]

Range(f) == { f[x] : x \in DOMAIN f }

----------------------------------------------------------------------------
\* Counter(data_bytes): the keys in first-seen order, and the counts.

Count(d, b) == Cardinality({ i \in 1 .. Len(d) : d[i] = b })

RECURSIVE FirstSeen(_, _)
FirstSeen(d, seen) ==
    IF d = <<>> THEN <<>>
    ELSE IF Head(d) \in seen THEN FirstSeen(Tail(d), seen)
    ELSE <<Head(d)>> \o FirstSeen(Tail(d), seen \cup {Head(d)})

CounterKeys(d) == FirstSeen(d, {})

HuffmanNode(byte_val, freq) ==
    [byte_val |-> byte_val, freq |-> freq, left |-> NoNode, right |-> NoNode]

\* HuffmanNode.__lt__
Lt(ns, a, b) == ns[a].freq < ns[b].freq

\* The nodes heappop may return: heap[0] is a node no other node of the heap
\* is less than; which one among equals depends on the heap's layout.
\* (fault variant: a pop that ignores the order)
PopCandidatesAny(ns, h) == h
PopCandidates(ns, h) == { n \in h : \A m \in h : ~Lt(ns, m, n) }

\* merged = HuffmanNode(None, left.freq + right.freq); merged.left/right = ...
\* (fault variant: the merged frequency forgets the right child)
MergedLeftOnly(ns, l, r) ==
    [byte_val |-> NoByte, freq |-> ns[l].freq, left |-> l, right |-> r]
Merged(ns, l, r) ==
    [byte_val |-> NoByte, freq |-> ns[l].freq + ns[r].freq, left |-> l, right |-> r]

----------------------------------------------------------------------------
\* build_codes_from_tree: walk(node, prefix) writes codes[byte_val]; a later
\* write to the same key replaces the earlier one.

RECURSIVE Walk(_, _, _)
Walk(ns, n, prefix) ==
    IF n = NoNode THEN EmptyMap
    ELSE IF ns[n].byte_val # NoByte
         THEN (ns[n].byte_val :> (IF prefix = <<>> THEN <<"0">> ELSE prefix))
         ELSE Walk(ns, ns[n].right, prefix \o <<"1">>) @@
              Walk(ns, ns[n].left, prefix \o <<"0">>)

\* (fault variant: no `or "0"` for a leaf that is the root)
RECURSIVE WalkNoFallback(_, _, _)
WalkNoFallback(ns, n, prefix) ==
    IF n = NoNode THEN EmptyMap
    ELSE IF ns[n].byte_val # NoByte
         THEN (ns[n].byte_val :> prefix)
         ELSE WalkNoFallback(ns, ns[n].right, prefix \o <<"1">>) @@
              WalkNoFallback(ns, ns[n].left, prefix \o <<"0">>)

\* (fault variant: the right branch appends no bit)
RECURSIVE WalkSameBit(_, _, _)
WalkSameBit(ns, n, prefix) ==
    IF n = NoNode THEN EmptyMap
    ELSE IF ns[n].byte_val # NoByte
         THEN (ns[n].byte_val :> (IF prefix = <<>> THEN <<"0">> ELSE prefix))
         ELSE WalkSameBit(ns, ns[n].right, prefix) @@
              WalkSameBit(ns, ns[n].left, prefix \o <<"0">>)

BuildCodesNoFallback(ns, r) == WalkNoFallback(ns, r, <<>>)
BuildCodesSameBit(ns, r) == WalkSameBit(ns, r, <<>>)
build_codes_from_tree(ns, r) == Walk(ns, r, <<>>)

\* "".join(codes[b] for b in data_bytes)
RECURSIVE JoinCodes(_, _)
JoinCodes(cds, d) ==
    IF d = <<>> THEN <<>> ELSE cds[Head(d)] \o JoinCodes(cds, Tail(d))

\* reverse_map = {v: k for k, v in codes.items()}; the tables of this model
\* come from build_codes_from_tree, whose codes are distinct, so one key
\* maps to each code.
ReverseMap(cds) == [c \in Range(cds) |-> CHOOSE k \in DOMAIN cds : cds[k] = c]

----------------------------------------------------------------------------
\* Values the variables of the other parts hold while one part runs.

KeptIdle == /\ phase = 0 /\ pending = <<>> /\ inputA = <<>> /\ kept_codes = EmptyMap
FlowIdle == /\ warned = FALSE /\ parsed = FALSE
CtlIdle  == /\ t = 0 /\ total_seconds = 0 /\ deadband = 0
            /\ T1 = 0 /\ T2 = 0 /\ sp1 = 0 /\ sp2 = 0
            /\ last_q1 = 0 /\ last_q2 = 0 /\ labQ1 = 0 /\ labQ2 = 0

CodecStart(d) ==
    /\ data = d
    /\ pc = "start"
    /\ nodes = <<>>
    /\ heap = {}
    /\ merges = 0
    /\ root = NoNode
    /\ codes = EmptyMap
    /\ encoded_bits = <<>>
    /\ dec_bits = <<>>
    /\ dec_codes = EmptyMap
    /\ pos = 0
    /\ cur = <<>>
    /\ decoded_bytes = <<>>

----------------------------------------------------------------------------
\* build_huffman_tree_from_bytes

\* freq = Counter(data_bytes); heap = [HuffmanNode(b, f) ...]; heapify;
\* if not heap: return None
BuildHeap ==
    /\ pc = "start"
    /\ LET keys == CounterKeys(data)
       IN  /\ nodes' = [i \in 1 .. Len(keys) |->
                           HuffmanNode(keys[i], Count(data, keys[i]))]
           /\ heap' = 1 .. Len(keys)
           /\ pc' = IF Len(keys) = 0 THEN "tree" ELSE "merge"
    /\ UNCHANGED <<data, merges, root, codes, encoded_bits, dec_bits, dec_codes,
                   pos, cur, decoded_bytes>>
    /\ UNCHANGED <<keptVars, flowVars, ctlVars>>

\* one iteration of `while len(heap) > 1`
Merge ==
    /\ pc = "merge"
    /\ Cardinality(heap) > 1
    /\ \E left \in PopCandidates(nodes, heap) :
         \E right \in PopCandidates(nodes, heap \ {left}) :
            /\ nodes' = Append(nodes, Merged(nodes, left, right))
            /\ heap' = (heap \ {left, right}) \cup {Len(nodes) + 1}
    /\ merges' = merges + 1
    /\ UNCHANGED <<data, pc, root, codes, encoded_bits, dec_bits, dec_codes,
                   pos, cur, decoded_bytes>>
    /\ UNCHANGED <<keptVars, flowVars, ctlVars>>

\* return heap[0]
ReturnRoot ==
    /\ pc = "merge"
    /\ Cardinality(heap) = 1
    /\ root' = CHOOSE n \in heap : TRUE
    /\ pc' = "tree"
    /\ UNCHANGED <<data, nodes, heap, merges, codes, encoded_bits, dec_bits,
                   dec_codes, pos, cur, decoded_bytes>>
    /\ UNCHANGED <<keptVars, flowVars, ctlVars>>

\* huffman_compress_bytes after the tree is built: `if root is None: return
\* "", {}`; else the codes of the tree and the joined bits.
\* (fault variant: a bit is returned for the empty input)
CompressResultPadded(ns, r, d) ==
    IF r = NoNode
    THEN [bits |-> <<"0">>, codes |-> EmptyMap]
    ELSE LET cds == build_codes_from_tree(ns, r)
         IN  [bits |-> JoinCodes(cds, d), codes |-> cds]
CompressResult(ns, r, d) ==
    IF r = NoNode
    THEN [bits |-> <<>>, codes |-> EmptyMap]
    ELSE LET cds == build_codes_from_tree(ns, r)
         IN  [bits |-> JoinCodes(cds, d), codes |-> cds]

CompressBytes ==
    /\ pc = "tree"
    /\ LET res == CompressResult(nodes, root, data)
       IN  /\ codes' = res.codes
           /\ encoded_bits' = res.bits
    /\ pc' = "compressed"
    /\ UNCHANGED <<data, nodes, heap, merges, root, dec_bits, dec_codes,
                   pos, cur, decoded_bytes>>
    /\ UNCHANGED <<keptVars, flowVars, ctlVars>>

----------------------------------------------------------------------------
\* huffman_decompress_bits

\* compress_decompress_cached: decoded_bytes, dec_time =
\*     huffman_decompress_bits(encoded_bits, codes_map)
CallDecompress ==
    /\ pc = "compressed"
    /\ phase = 0
    /\ dec_bits' = encoded_bits
    /\ dec_codes' = codes
    /\ pos' = 0
    /\ cur' = <<>>
    /\ decoded_bytes' = <<>>
    /\ pc' = "decode"
    /\ UNCHANGED <<data, nodes, heap, merges, root, codes, encoded_bits>>
    /\ UNCHANGED <<keptVars, flowVars, ctlVars>>

\* `if cur in reverse_map`
\* (fault variant: the lookup never matches)
InReverseMapNever(c, cds) == FALSE
InReverseMap(c, cds) == c \in Range(cds)

\* one iteration of `for bit in encoded_bits`
DecodeBit ==
    /\ pc = "decode"
    /\ pos < Len(dec_bits)
    /\ LET c == Append(cur, dec_bits[pos + 1])
       IN  IF InReverseMap(c, dec_codes)
           THEN /\ decoded_bytes' = Append(decoded_bytes, ReverseMap(dec_codes)[c])
                /\ cur' = <<>>
           ELSE /\ decoded_bytes' = decoded_bytes
                /\ cur' = c
    /\ pos' = pos + 1
    /\ UNCHANGED <<data, pc, nodes, heap, merges, root, codes, encoded_bits,
                   dec_bits, dec_codes>>
    /\ UNCHANGED <<keptVars, flowVars, ctlVars>>

\* return bytes(decoded_bytes), dec_time
DecodeReturn ==
    /\ pc = "decode"
    /\ pos = Len(dec_bits)
    /\ pc' = "returned"
    /\ UNCHANGED <<data, nodes, heap, merges, root, codes, encoded_bits,
                   dec_bits, dec_codes, pos, cur, decoded_bytes>>
    /\ UNCHANGED <<keptVars, flowVars, ctlVars>>

----------------------------------------------------------------------------
\* Compression followed by decompression of one input, as in
\* compress_decompress_cached.

Init ==
    /\ \E d \in BytesUpTo(MaxLen) \cup {Aaabbc} : CodecStart(d)
    /\ KeptIdle /\ FlowIdle /\ CtlIdle

Next ==
    \/ BuildHeap
    \/ Merge
    \/ ReturnRoot
    \/ CompressBytes
    \/ CallDecompress
    \/ DecodeBit
    \/ DecodeReturn

Spec == Init /\ [][Next]_vars

----------------------------------------------------------------------------
\* Two compressions, then huffman_decompress_bits on the stream of the second
\* with the table of the first: the decoder's arguments are any stream and
\* any table the compressor returns.

\* the first call has returned: keep its table, call
\* huffman_compress_bytes(pending)
KeepTable ==
    /\ pc = "compressed"
    /\ phase = 1
    /\ kept_codes' = codes
    /\ inputA' = data
    /\ phase' = 2
    /\ data' = pending
    /\ pc' = "start"
    /\ nodes' = <<>>
    /\ heap' = {}
    /\ merges' = 0
    /\ root' = NoNode
    /\ codes' = EmptyMap
    /\ encoded_bits' = <<>>
    /\ UNCHANGED <<dec_bits, dec_codes, pos, cur, decoded_bytes, pending>>
    /\ UNCHANGED <<flowVars, ctlVars>>

\* huffman_decompress_bits(encoded_bits of the second call, codes of the first)
CallDecompressKept ==
    /\ pc = "compressed"
    /\ phase = 2
    /\ dec_bits' = encoded_bits
    /\ dec_codes' = kept_codes
    /\ pos' = 0
    /\ cur' = <<>>
    /\ decoded_bytes' = <<>>
    /\ pc' = "decode"
    /\ UNCHANGED <<data, nodes, heap, merges, root, codes, encoded_bits>>
    /\ UNCHANGED <<keptVars, flowVars, ctlVars>>

InitForeign ==
    /\ \E a \in BytesUpTo(MaxLenForeign) :
         \E b \in BytesUpTo(MaxLenForeign) \ {a} :
            /\ CodecStart(a)
            /\ pending = b
    /\ phase = 1
    /\ inputA = <<>>
    /\ kept_codes = EmptyMap
    /\ FlowIdle /\ CtlIdle

NextForeign ==
    \/ BuildHeap
    \/ Merge
    \/ ReturnRoot
    \/ CompressBytes
    \/ KeepTable
    \/ CallDecompressKept
    \/ DecodeBit
    \/ DecodeReturn

SpecForeign == InitForeign /\ [][NextForeign]_vars

----------------------------------------------------------------------------
\* The script of interface.py after the definitions: upload, cached
\* compression and decompression, comparison, summary, CSV parsing. The value
\* compress_decompress_cached returns is an input of this part: the script
\* compares it with file_bytes because it does not take it to be equal.

\* uploaded_file is None: st.info, st.stop()
NoUpload ==
    /\ pc = "script"
    /\ pc' = "stopped"
    /\ UNCHANGED <<data, nodes, heap, merges, root, codes, encoded_bits,
                   dec_bits, dec_codes, pos, cur, decoded_bytes>>
    /\ UNCHANGED <<keptVars, flowVars, ctlVars>>

\* file_bytes = uploaded_file.read()
ReadUpload ==
    /\ pc = "script"
    /\ \E b \in BytesUpTo(MaxLenFlow) : data' = b
    /\ pc' = "cached"
    /\ UNCHANGED <<nodes, heap, merges, root, codes, encoded_bits,
                   dec_bits, dec_codes, pos, cur, decoded_bytes>>
    /\ UNCHANGED <<keptVars, flowVars, ctlVars>>

\* info = compress_decompress_cached(file_bytes);
\* decoded_bytes = info["decoded_bytes"]
CachedResult ==
    /\ pc = "cached"
    /\ \E b \in BytesUpTo(MaxLenFlow) : decoded_bytes' = b
    /\ pc' = "verify"
    /\ UNCHANGED <<data, nodes, heap, merges, root, codes, encoded_bits,
                   dec_bits, dec_codes, pos, cur>>
    /\ UNCHANGED <<keptVars, flowVars, ctlVars>>

\* if decoded_bytes != file_bytes: st.warning(...); then the summary in the
\* sidebar
VerifyAndSummary ==
    /\ pc = "verify"
    /\ warned' = (decoded_bytes # data)
    /\ pc' = "summary"
    /\ UNCHANGED <<data, nodes, heap, merges, root, codes, encoded_bits,
                   dec_bits, dec_codes, pos, cur, decoded_bytes>>
    /\ UNCHANGED <<parsed>>
    /\ UNCHANGED <<keptVars, ctlVars>>

\* text = decoded_bytes.decode(...); df = pd.read_csv(StringIO(text))
ReadCsv ==
    /\ pc = "summary"
    /\ parsed' = TRUE
    /\ pc' = "dataframe"
    /\ UNCHANGED <<data, nodes, heap, merges, root, codes, encoded_bits,
                   dec_bits, dec_codes, pos, cur, decoded_bytes>>
    /\ UNCHANGED <<warned>>
    /\ UNCHANGED <<keptVars, ctlVars>>

InitFlow ==
    /\ data = <<>>
    /\ pc = "script"
    /\ nodes = <<>> /\ heap = {} /\ merges = 0 /\ root = NoNode
    /\ codes = EmptyMap /\ encoded_bits = <<>>
    /\ dec_bits = <<>> /\ dec_codes = EmptyMap /\ pos = 0 /\ cur = <<>>
    /\ decoded_bytes = <<>>
    /\ KeptIdle /\ FlowIdle /\ CtlIdle

NextFlow ==
    \/ NoUpload
    \/ ReadUpload
    \/ CachedResult
    \/ VerifyAndSummary
    \/ ReadCsv

SpecFlow == InitFlow /\ [][NextFlow]_vars

----------------------------------------------------------------------------
\* tclab_onoff_7days.py: the ON/OFF control loop. Temperatures, setpoints and
\* the deadband are whole degrees.

\* sp1, sp2 switch every 43200 iterations
HalfDay == 43200

\* what lab.T1 and lab.T2 may read
Temps == 21 .. 32

Setpoint1(i) == 25 + 5 * ((i \div HalfDay) % 2)
Setpoint2(i) == 23 + 5 * ((i \div HalfDay) % 2)

\* (fault variant: no hysteresis, off inside the band)
onoff_control_off_in_band(temp, setpoint, db, last_val) ==
    IF temp < setpoint - db THEN 100
    ELSE IF temp > setpoint + db THEN 0
    ELSE 0
onoff_control(temp, setpoint, db, last_val) ==
    IF temp < setpoint - db THEN 100
    ELSE IF temp > setpoint + db THEN 0
    ELSE last_val

\* one iteration of `for t in range(total_seconds)`
Iterate ==
    /\ pc = "loop"
    /\ t < total_seconds
    /\ \E a \in Temps : \E b \in Temps :
          /\ T1' = a
          /\ T2' = b
    /\ sp1' = Setpoint1(t)
    /\ sp2' = Setpoint2(t)
    /\ last_q1' = onoff_control(T1', sp1', deadband, last_q1)
    /\ last_q2' = onoff_control(T2', sp2', deadband, last_q2)
    /\ labQ1' = last_q1'
    /\ labQ2' = last_q2'
    /\ t' = t + 1
    /\ UNCHANGED <<pc, total_seconds, deadband>>
    /\ UNCHANGED <<data, nodes, heap, merges, root, codes, encoded_bits,
                   dec_bits, dec_codes, pos, cur, decoded_bytes>>
    /\ UNCHANGED <<keptVars, flowVars>>

\* KeyboardInterrupt in the loop, then `finally`: lab.Q1(0); lab.Q2(0); close
Interrupt ==
    /\ pc = "loop"
    /\ t < total_seconds
    /\ labQ1' = 0
    /\ labQ2' = 0
    /\ pc' = "closed"
    /\ UNCHANGED <<t, total_seconds, deadband, T1, T2, sp1, sp2, last_q1, last_q2>>
    /\ UNCHANGED <<data, nodes, heap, merges, root, codes, encoded_bits,
                   dec_bits, dec_codes, pos, cur, decoded_bytes>>
    /\ UNCHANGED <<keptVars, flowVars>>

\* the range is exhausted, then `finally`
LoopEnd ==
    /\ pc = "loop"
    /\ t = total_seconds
    /\ labQ1' = 0
    /\ labQ2' = 0
    /\ pc' = "closed"
    /\ UNCHANGED <<t, total_seconds, deadband, T1, T2, sp1, sp2, last_q1, last_q2>>
    /\ UNCHANGED <<data, nodes, heap, merges, root, codes, encoded_bits,
                   dec_bits, dec_codes, pos, cur, decoded_bytes>>
    /\ UNCHANGED <<keptVars, flowVars>>

\* the loop as main() enters it (t = 0), and as it stands one iteration before
\* the first change of setpoint, after an iteration that read any temperatures
InitCtl ==
    /\ pc = "loop"
    /\ deadband \in 0 .. MaxDeadband
    /\ \/ /\ t = 0
          /\ T1 = 0 /\ T2 = 0 /\ sp1 = 0 /\ sp2 = 0
          /\ last_q1 = 0 /\ last_q2 = 0
       \/ /\ t = HalfDay - 1
          /\ T1 \in Temps /\ T2 \in Temps
          /\ sp1 = Setpoint1(t - 1) /\ sp2 = Setpoint2(t - 1)
          /\ \E p \in {0, 100} : last_q1 = onoff_control(T1, sp1, deadband, p)
          /\ \E p \in {0, 100} : last_q2 = onoff_control(T2, sp2, deadband, p)
    /\ labQ1 = last_q1
    /\ labQ2 = last_q2
    /\ total_seconds = t + MaxIter
    /\ data = <<>>
    /\ nodes = <<>> /\ heap = {} /\ merges = 0 /\ root = NoNode
    /\ codes = EmptyMap /\ encoded_bits = <<>>
    /\ dec_bits = <<>> /\ dec_codes = EmptyMap /\ pos = 0 /\ cur = <<>>
    /\ decoded_bytes = <<>>
    /\ KeptIdle /\ FlowIdle

NextCtl ==
    \/ Iterate
    \/ Interrupt
    \/ LoopEnd

SpecCtl == InitCtl /\ [][NextCtl]_vars

----------------------------------------------------------------------------
\* Quantities the properties of the codec speak about.

Distinct(d) == { d[i] : i \in 1 .. Len(d) }

IsPrefix(a, b) == Len(a) <= Len(b) /\ SubSeq(b, 1, Len(a)) = a

RECURSIVE SumOver(_, _)
SumOver(S, f) ==
    IF S = {} THEN 0
    ELSE LET x == CHOOSE y \in S : TRUE
         IN  f[x] + SumOver(S \ {x}, f)

RECURSIVE Pow2(_)
Pow2(n) == IF n = 0 THEN 1 ELSE 2 * Pow2(n - 1)

\* sum over symbols of frequency(symbol) x length(code(symbol))
Cost(cds, d) == SumOver(DOMAIN cds, [b \in DOMAIN cds |-> Count(d, b) * Len(cds[b])])

\* The least cost of a prefix-free binary code with non-empty codes for the
\* frequencies of d, computed without the tree: code lengths l are those of a
\* prefix-free code exactly when sum 2^-l <= 1 (Kraft, McMillan), and a code
\* for k symbols never needs a code longer than k bits.
KraftOk(S, l, k) == SumOver(S, [b \in S |-> Pow2(k - l[b])]) <= Pow2(k)

MinCost(d) ==
    LET S == Distinct(d)
        k == Cardinality(S)
        costs == { SumOver(S, [b \in S |-> Count(d, b) * l[b]]) :
                      l \in { m \in [S -> 1 .. k] : KraftOk(S, m, k) } }
    IN  CHOOSE c \in costs : \A e \in costs : c <= e

RECURSIVE LeafBytes(_, _)
LeafBytes(ns, n) ==
    IF n = NoNode THEN <<>>
    ELSE IF ns[n].left = NoNode /\ ns[n].right = NoNode THEN <<ns[n].byte_val>>
    ELSE LeafBytes(ns, ns[n].left) \o LeafBytes(ns, ns[n].right)

HeapFreq(ns, h) == SumOver(h, [n \in h |-> ns[n].freq])

Compressed == pc \in {"compressed", "decode", "returned"}

----------------------------------------------------------------------------
\* C1: once the decoder has returned for a non-empty input S, the decoded
\* bytes are exactly S, whichever nodes of equal frequency left the heap
\* first, and no bit is left in the buffer.
C1_RoundTrip ==
    (pc = "returned" /\ data # <<>>) => (decoded_bytes = data /\ cur = <<>>)

C1_Witness ==
    /\ pc = "returned"
    /\ Cardinality(Distinct(data)) = 3
    /\ Len(data) >= 4
    /\ decoded_bytes = data

\* C2: for an input with two or more distinct byte values every code of the
\* table is non-empty, no two symbols have the same code and no code is a
\* proper prefix of another.
C2_PrefixFree ==
    (Compressed /\ Cardinality(Distinct(data)) >= 2) =>
        /\ DOMAIN codes = Distinct(data)
        /\ \A a \in DOMAIN codes : codes[a] # <<>>
        /\ \A a, b \in DOMAIN codes :
              a # b => (codes[a] # codes[b] /\ ~IsPrefix(codes[a], codes[b]))

C2_Witness ==
    /\ pc = "compressed"
    /\ Cardinality(Distinct(data)) = 3
    /\ \E a, b \in DOMAIN codes : Len(codes[a]) = 1 /\ Len(codes[b]) = 2

\* C5: the weighted cost of the generated table is the least cost of any
\* prefix-free binary code for the same frequencies, under every tie-break,
\* and it is 9 for "aaabbc".
C5_Optimal ==
    (pc = "compressed" /\ data # <<>>) =>
        /\ Cost(codes, data) = MinCost(data)
        /\ Len(encoded_bits) = Cost(codes, data)
        /\ (data = Aaabbc => Cost(codes, data) = 9)

C5_Witness ==
    /\ pc = "compressed"
    /\ data = Aaabbc
    /\ Cost(codes, data) = 9
    /\ Len(codes[0]) = 1

\* C6: for the empty input no tree is built, the stream and the table are
\* empty, and decoding them returns the empty byte sequence.
C6_Empty ==
    data = <<>> =>
        /\ nodes = <<>> /\ heap = {} /\ root = NoNode
        /\ Compressed => (encoded_bits = <<>> /\ codes = EmptyMap)
        /\ pc \in {"decode", "returned"} => (dec_bits = <<>> /\ dec_codes = EmptyMap)
        /\ pc = "returned" => decoded_bytes = <<>>

C6_Witness == data = <<>> /\ pc = "returned" /\ decoded_bytes = <<>>

\* C7: for an input of n >= 1 copies of one byte the tree is a single leaf
\* built without a merge, the table maps that byte to "0" and nothing else,
\* and the stream has n bits.
C7_SingleSymbol ==
    (Compressed /\ Cardinality(Distinct(data)) = 1) =>
        /\ merges = 0
        /\ Len(nodes) = 1
        /\ root = 1
        /\ nodes[1] = HuffmanNode(data[1], Len(data))
        /\ codes = (data[1] :> <<"0">>)
        /\ Len(encoded_bits) = Len(data)

C7_Witness ==
    /\ pc = "compressed"
    /\ data = <<1, 1, 1, 1>>
    /\ encoded_bits = <<"0", "0", "0", "0">>

\* C9: in the merge loop the frequencies in the heap sum to the input length;
\* each iteration takes two nodes of least frequency out and puts in one
\* internal node whose frequency is their sum and whose children they are; the
\* loop ends after k-1 iterations for k distinct bytes; the root has the input
\* length as frequency, one leaf per distinct byte and no node with one child.
C9_LoopState ==
    /\ pc = "merge" =>
          /\ HeapFreq(nodes, heap) = Len(data)
          /\ Cardinality(heap) + merges = Cardinality(Distinct(data))
    /\ (pc = "tree" /\ data # <<>>) =>
          /\ merges = Cardinality(Distinct(data)) - 1
          /\ nodes[root].freq = Len(data)
          /\ Len(LeafBytes(nodes, root)) = Cardinality(Distinct(data))
          /\ Range(LeafBytes(nodes, root)) = Distinct(data)
          /\ \A n \in 1 .. Len(nodes) :
                /\ (nodes[n].left = NoNode) <=> (nodes[n].right = NoNode)
                /\ (nodes[n].left = NoNode) <=> (nodes[n].byte_val # NoByte)

C9_Iteration ==
    (pc = "merge" /\ heap' # heap) =>
        \E l \in heap : \E r \in heap \ {l} :
            /\ \A m \in heap : nodes[l].freq <= nodes[m].freq
            /\ \A m \in heap \ {l} : nodes[r].freq <= nodes[m].freq
            /\ \E new \in heap' \ heap :
                  /\ heap' = (heap \ {l, r}) \cup {new}
                  /\ nodes'[new].freq = nodes[l].freq + nodes[r].freq
                  /\ nodes'[new].left = l
                  /\ nodes'[new].right = r
                  /\ nodes'[new].byte_val = NoByte

C9_MergeLoop == [](C9_LoopState) /\ [][C9_Iteration]_vars

C9_Witness ==
    /\ pc = "tree"
    /\ merges = 2
    /\ nodes[root].freq = Len(data)
    /\ Len(data) >= 5

\* C3: decoding the stream of B with the table built from a different
\* sequence A never returns, as a normal result, bytes different from B (it
\* raises instead).
C3_ForeignTableFails ==
    ~(phase = 2 /\ pc = "returned" /\ inputA # data /\ decoded_bytes # data)

\* C4: the decoder never returns normally when the stream ended with a
\* non-empty bit buffer that matches no code: an unresolved partial code ends
\* in a decode failure, not in the bytes decoded so far.
C4_PartialCodeFails ==
    ~(pc = "returned" /\ cur # <<>> /\ ~InReverseMap(cur, dec_codes))

InBand(temp, setpoint) ==
    setpoint - deadband <= temp /\ temp <= setpoint + deadband

C10_Command ==
    /\ t = 0 => (last_q1 = 0 /\ last_q2 = 0)
    /\ t > 0 =>
          /\ last_q1 \in {0, 100} /\ last_q2 \in {0, 100}
          /\ T1 < sp1 - deadband => last_q1 = 100
          /\ T1 > sp1 + deadband => last_q1 = 0
          /\ T2 < sp2 - deadband => last_q2 = 100
          /\ T2 > sp2 + deadband => last_q2 = 0
          /\ sp1 = Setpoint1(t - 1) /\ sp2 = Setpoint2(t - 1)
    /\ pc = "loop" => (labQ1 = last_q1 /\ labQ2 = last_q2)

C10_Held ==
    (t' = t + 1) =>
        /\ InBand(T1', sp1') => last_q1' = last_q1
        /\ InBand(T2', sp2') => last_q2' = last_q2
        /\ last_q1' # last_q1 => ~InBand(T1', sp1')
        /\ last_q2' # last_q2 => ~InBand(T2', sp2')

C10_OnOff == [](C10_Command) /\ [][C10_Held]_vars

C10_Witness ==
    /\ pc = "loop"
    /\ t = HalfDay + 1
    /\ sp1 = 30 /\ sp2 = 28
    /\ deadband = 1
    /\ T1 = 31 /\ last_q1 = 100
    /\ T2 = 30 /\ last_q2 = 0

====
